---- MODULE Spec2Model ----
(***************************************************************************)
(* State-broadcast helpers of horovod.torch (functions.py):                *)
(*   broadcast_parameters, broadcast_optimizer_state, broadcast_object,    *)
(*   allgather_object, run by every rank of a job over the collective       *)
(*   primitives broadcast_async_/synchronize/broadcast_/allgather.          *)
(***************************************************************************)
EXTENDS Integers, Sequences, FiniteSets, TLC

\* ------------------------------------------------------------------------
\* Bounds of the model
\* ------------------------------------------------------------------------

\* Largest world size explored: size() ranges over 1..MaxWorldSize.
MaxWorldSize == 2

\* Largest number of tensors passed to a direct broadcast_parameters call.
MaxTensors == 2

\* ------------------------------------------------------------------------
\* Numbers, Python values and float32 tensors
\* ------------------------------------------------------------------------

\* Significand width of the float32 elements of torch.Tensor([...]).
F32Bits == 24

RECURSIVE Pow2(_)
Pow2(k) == IF k <= 0 THEN 1 ELSE 2 * Pow2(k - 1)

RECURSIVE BitLen(_)
BitLen(n) == IF n <= 0 THEN 0 ELSE 1 + BitLen(n \div 2)

\* A number is m * 2^e with m >= 0.  Conversion to float32 keeps F32Bits
\* significant bits of m, rounding to nearest, ties to even.
F32(m) ==
    IF BitLen(m) <= F32Bits THEN m
    ELSE LET q  == Pow2(BitLen(m) - F32Bits)
             r  == m % q
             lo == m - r
         IN  IF 2 * r < q THEN lo
             ELSE IF 2 * r > q THEN lo + q
             ELSE IF (lo \div q) % 2 = 0 THEN lo ELSE lo + q

\* Python values held by an optimizer: ty is the Python type; an int is m,
\* a float is m * 2^e, a bool is m in {0,1}, a tuple holds items, and a
\* tensor-valued field holds the index m of its tensor on the rank's heap.
PyInt(n) == [ty |-> "int",    m |-> n, e |-> 0, items |-> << >>]
PyFloat(m, e) == [ty |-> "float",  m |-> m, e |-> e, items |-> << >>]
PyBool(b) == [ty |-> "bool",   m |-> IF b THEN 1 ELSE 0, e |-> 0, items |-> << >>]
PyTuple(xs) == [ty |-> "tuple",  m |-> 0, e |-> 0, items |-> xs]
TensorRef(t) == [ty |-> "tensor", m |-> t, e |-> 0, items |-> << >>]
PyNone == [ty |-> "none",   m |-> 0, e |-> 0, items |-> << >>]
PyGenerator == [ty |-> "generator", m |-> 0, e |-> 0, items |-> << >>]
PyFunction == [ty |-> "function", m |-> 0, e |-> 0, items |-> << >>]

\* Elements of a float tensor: a leaf is the float32 number m * 2^e, a node
\* is one more dimension.
Leaf(m, e) == [leaf |-> TRUE,  m |-> m, e |-> e, xs |-> << >>]
Node(xs) == [leaf |-> FALSE, m |-> 0, e |-> 0, xs |-> xs]

\* The element that torch.Tensor([v]) holds for the Python value v.
RECURSIVE ToElem(_)
ToElem(v) ==
    IF v.ty = "tuple"
    THEN Node([i \in 1..Len(v.items) |-> ToElem(v.items[i])])
    ELSE Leaf(F32(v.m), v.e)

\* torch.Tensor([v]): a one-element float32 tensor.
WrapScalar(v) == << ToElem(v) >>

\* _get_types: the type of a scalar, or (type, [types of the items]).
RECURSIVE get_types(_)
get_types(x) ==
    IF x.ty = "tuple"
    THEN [iter |-> TRUE, t |-> x.ty,
          sub |-> [i \in 1..Len(x.items) |-> get_types(x.items[i])]]
    ELSE [iter |-> FALSE, t |-> x.ty, sub |-> << >>]

\* t(x) for a Python scalar type t and a float32 number x.
CastScalar(t, x) ==
    IF t = "int"
    THEN PyInt(IF x.e >= 0 THEN x.m * Pow2(x.e) ELSE x.m \div Pow2(0 - x.e))
    ELSE IF t = "bool" THEN PyBool(x.m # 0)
    ELSE PyFloat(x.m, x.e)

\* _recursive_cast
RECURSIVE recursive_cast(_, _)
recursive_cast(x, dtype) ==
    IF dtype.iter
    THEN PyTuple([i \in 1..Len(x.xs) |-> recursive_cast(x.xs[i], dtype.sub[i])])
    ELSE CastScalar(dtype.t, x)

\* '%s.%d' % (name, n)
Key(name, n) == name \o "." \o ToString(n)

\* ------------------------------------------------------------------------
\* Optimizers
\* ------------------------------------------------------------------------

\* DistributedOptimizer.__module__
DistributedModule == "horovod.torch.optimizer"
PlainModule == "torch.optim"

\* Optimizer classes: L-BFGS (rejected), an Adam-like optimizer with a float
\* and a tuple hyperparameter, a scalar and a tensor-valued state field, and
\* a custom optimizer that names a hyperparameter like its state field.
Classes == {"LBFGS", "Adam", "Sched"}

OptionKeys(cls) ==
    IF cls = "Adam" THEN << "betas" >>
    ELSE IF cls = "Sched" THEN << "step" >>
    ELSE << "lr" >>

FieldNames(cls) ==
    IF cls = "Adam" THEN << "step", "exp_avg" >>
    ELSE IF cls = "Sched" THEN << "step" >>
    ELSE << "n_iter" >>

FieldIsTensor(name) == name = "exp_avg"

\* Parameter identifiers of state_dict()['param_groups'][i]['params'].
Pids == {0, 1}

\* The parameters of the model, in one group or in two.
Layouts == { << << 0, 1 >> >>, << << 0 >>, << 1 >> >> }

\* Value profiles: 1 holds values a float32 represents exactly, 2 holds
\* floats that need more than 24 significant bits (as 0.1 does).
Profiles == {1, 2}

OptionValue(k, index, prof) ==
    IF k = "lr"
    THEN (IF prof = 1 THEN PyFloat(1 + index, -3)
                      ELSE PyFloat(16777217 + 2 * index, -26))
    ELSE IF k = "betas"
    THEN (IF prof = 1 THEN PyTuple(<< PyFloat(7, -3), PyFloat(15 - index, -4) >>)
                      ELSE PyTuple(<< PyFloat(16777219, -24), PyFloat(5 + index, -3) >>))
    ELSE PyInt(10 * prof + index + 5)

\* State of a trained parameter (prof in Profiles) or, for prof = 0, the
\* state the first step creates from a zero gradient.
ScalarField(name, pid, prof) ==
    IF prof = 0 THEN PyInt(1) ELSE PyInt(10 * prof + pid + 1)

TensorField(name, pid, prof) ==
    IF prof = 0 THEN << Leaf(0, 0) >> ELSE << Leaf(4 * prof + pid + 3, -2) >>

RECURSIVE ParamState(_, _, _, _, _)
ParamState(fields, i, pid, prof, acc) ==
    IF i > Len(fields) THEN acc
    ELSE LET name == fields[i] IN
         IF FieldIsTensor(name)
         THEN ParamState(fields, i + 1, pid, prof,
                [entries |-> Append(acc.entries,
                                [name |-> name, v |-> TensorRef(Len(acc.heap) + 1)]),
                 heap |-> Append(acc.heap, TensorField(name, pid, prof))])
         ELSE ParamState(fields, i + 1, pid, prof,
                [entries |-> Append(acc.entries,
                                [name |-> name, v |-> ScalarField(name, pid, prof)]),
                 heap |-> acc.heap])

\* The base update rule of torch.optim.Optimizer.step(): every parameter
\* with a gradient that has no state yet gets its state created.
RECURSIVE StepParams(_, _, _, _, _)
StepParams(o, pids, i, prof, acc) ==
    IF i > Len(pids) THEN acc
    ELSE LET pid == pids[i] IN
         IF o.grad[pid] = "None" \/ pid \in DOMAIN acc.state
         THEN StepParams(o, pids, i + 1, prof, acc)
         ELSE LET ps == ParamState(FieldNames(o.cls), 1, pid, prof,
                                   [entries |-> << >>, heap |-> acc.heap])
              IN  StepParams(o, pids, i + 1, prof,
                     [state |-> (pid :> ps.entries) @@ acc.state, heap |-> ps.heap])

RECURSIVE StepGroups(_, _, _, _)
StepGroups(o, gi, prof, acc) ==
    IF gi > Len(o.param_groups) THEN acc
    ELSE StepGroups(o, gi + 1, prof,
                    StepParams(o, o.param_groups[gi].params, 1, prof, acc))

BaseStep(o, heap, prof) ==
    LET r == StepGroups(o, 1, prof, [state |-> o.state, heap |-> heap])
    IN  [opt |-> [o EXCEPT !.state = r.state], heap |-> r.heap]

\* An optimizer as constructed (state empty, no gradients), then, when
\* materialized, as left by training or by loading a checkpoint.
NewOptimizer(cls, module, layout, rg, prof) ==
    [cls |-> cls, module |-> module, distributed |-> module = DistributedModule,
     param_groups |->
        [gi \in 1..Len(layout) |->
            [options |-> [j \in 1..Len(OptionKeys(cls)) |->
                            [k |-> OptionKeys(cls)[j],
                             v |-> OptionValue(OptionKeys(cls)[j], gi - 1, prof)]],
             params |-> layout[gi]]],
     state |-> << >>,
     requires_grad |-> rg,
     grad |-> [p \in Pids |-> "None"]]

\* An optimizer restored from training in which the parameters of `had`
\* received gradients: step() skips a parameter whose grad is None, so only
\* those own state, whatever requires gradients now.
RestoredOptimizer(cls, module, layout, rg, had, prof) ==
    LET o == NewOptimizer(cls, module, layout, rg, prof)
        g == [o EXCEPT !.grad = [p \in Pids |-> IF had[p] THEN "g" ELSE "None"]]
    IN  BaseStep(g, << >>, prof)

TrainedOptimizer(cls, module, layout, rg, prof) ==
    RestoredOptimizer(cls, module, layout, rg, rg, prof)

\* What a caller can observe of an optimizer: hyperparameters, gradients and
\* per-parameter state with tensor-valued fields read from the heap.
Deref(v, heap) ==
    IF v.ty = "tensor"
    THEN [ty |-> "tensor", m |-> 0, e |-> 0, items |-> heap[v.m]]
    ELSE v

StateView(o, heap) ==
    [pid \in DOMAIN o.state |->
        [i \in 1..Len(o.state[pid]) |->
            [name |-> o.state[pid][i].name, v |-> Deref(o.state[pid][i].v, heap)]]]

OptionsView(o) == [gi \in 1..Len(o.param_groups) |-> o.param_groups[gi].options]

View(o, heap) ==
    [options |-> OptionsView(o), state |-> StateView(o, heap), grad |-> o.grad]

\* ------------------------------------------------------------------------
\* broadcast_optimizer_state: the batch and its callbacks (lines 104-175)
\* ------------------------------------------------------------------------

\* occurrences = collections.defaultdict(int)
Occ(occurrences, name) == IF name \in DOMAIN occurrences THEN occurrences[name] ELSE 0

\* _create_option_callback(index, option_key, option_tensor, dtypes)
create_option_callback(index, option_key, option_tensor, dtypes) ==
    [kind |-> "option", index |-> index, name |-> option_key, pid |-> 0,
     p |-> option_tensor, dtypes |-> dtypes]

\* _create_callback(pid, name, t, p)
create_callback(pid, name, t, p) ==
    [kind |-> "state", index |-> 0, name |-> name, pid |-> pid,
     p |-> p, dtypes |-> [iter |-> FALSE, t |-> t, sub |-> << >>]]

\* key = '%s.%d' % (option_key, index)
OptionKey(option_key, index) == Key(option_key, index)

\* key = '%s.%d' % (str(name), occurrences[name])
FieldKey(name, n) == Key(name, n)

\* Lines 143-152: one hyperparameter of group `index`.
AddOption(acc, index, option) ==
    LET key == OptionKey(option.k, index)
        option_tensor == Len(acc.heap) + 1
    IN  [acc EXCEPT
            !.heap = Append(@, WrapScalar(option.v)),
            !.callbacks = (key :> create_option_callback(index, option.k, option_tensor,
                                                         get_types(option.v))) @@ @,
            !.params = Append(@, [key |-> key, p |-> option_tensor])]

RECURSIVE AddOptions(_, _, _, _)
AddOptions(acc, index, options, j) ==
    IF j > Len(options) THEN acc
    ELSE AddOptions(AddOption(acc, index, options[j]), index, options, j + 1)

\* Lines 161-175: one state field of parameter pid.
AddField(acc, pid, field) ==
    LET n   == Occ(acc.occurrences, field.name) + 1
        key == FieldKey(field.name, n)
        occ == (field.name :> n) @@ acc.occurrences
    IN  IF field.v.ty = "tensor"
        THEN [acc EXCEPT
                !.occurrences = occ,
                !.params = Append(@, [key |-> key, p |-> field.v.m])]
        ELSE LET p == Len(acc.heap) + 1 IN
             [acc EXCEPT
                !.occurrences = occ,
                !.heap = Append(@, WrapScalar(field.v)),
                !.callbacks = (key :> create_callback(pid, field.name, field.v.ty, p)) @@ @,
                !.params = Append(@, [key |-> key, p |-> p])]

RECURSIVE AddFields(_, _, _, _)
AddFields(acc, pid, param_state, j) ==
    IF j > Len(param_state) THEN acc
    ELSE AddFields(AddField(acc, pid, param_state[j]), pid, param_state, j + 1)

\* Lines 155-175: the parameters of one group; one without state is skipped.
RECURSIVE AddParams(_, _, _, _)
AddParams(acc, state, pids, j) ==
    IF j > Len(pids) THEN acc
    ELSE IF pids[j] \notin DOMAIN state
         THEN AddParams(acc, state, pids, j + 1)
         ELSE AddParams(AddFields(acc, pids[j], state[pids[j]], 1), state, pids, j + 1)

\* Lines 141-175: for index, group in enumerate(state_dict['param_groups']).
RECURSIVE AddGroups(_, _, _)
AddGroups(acc, o, gi) ==
    IF gi > Len(o.param_groups) THEN acc
    ELSE LET g  == o.param_groups[gi]
             a1 == AddOptions(acc, gi - 1, g.options, 1)
             a2 == AddParams(a1, o.state, g.params, 1)
         IN  AddGroups(a2, o, gi + 1)

BuildBatch(o, heap) ==
    AddGroups([params |-> << >>, callbacks |-> << >>, occurrences |-> << >>,
               heap |-> heap], o, 1)

\* The names of a list of (name, tensor) pairs are pairwise distinct.
NamesDistinct(items) ==
    \A i, j \in 1..Len(items) : items[i].name = items[j].name => i = j

\* ------------------------------------------------------------------------
\* State
\* ------------------------------------------------------------------------

VARIABLES
    size,        \* size(): the number of ranks
    root_rank,   \* the root_rank argument every rank passes
    pc,          \* pc[r]: where rank r is in its call
    err,         \* err[r]: the exception rank r's call raised, "" if none
    opt,         \* opt[r]: rank r's optimizer
    orig,        \* orig[r]: View of rank r's optimizer when the call was made
    atcall,      \* atcall[r]: its View when broadcast_parameters was called
    heap,        \* heap[r]: rank r's tensors, by index
    params,      \* params[r]: the params argument of broadcast_parameters
    callbacks,   \* callbacks[r]: key -> reconstruction callback
    plist,       \* plist[r]: params as normalised by broadcast_parameters
    caller,      \* caller[r]: who called broadcast_parameters
    handles,     \* handles[r]: the handles of the asynchronous broadcasts issued
    waited,      \* waited[r]: how many handles were synchronized
    calls,       \* calls[r]: the collective calls issued, in order
    steps,       \* steps[r]: the update rules invoked by lazy initialization
    cbcalls,     \* cbcalls[r]: the callbacks invoked, in order
    obj,         \* obj[r]: the obj argument of broadcast_object / allgather_object
    objname,     \* objname[r]: the name argument, "None" when left out
    result,      \* result[r]: what the call returned
    t,           \* t[r]: the byte tensor holding the pickle, 0 before it exists
    sz,          \* sz[r]: the one-element tensor holding its length
    sizes,       \* sizes[r]: the gathered lengths
    gathered     \* gathered[r]: the gathered bytes

vars == << size, root_rank, pc, err, opt, orig, atcall, heap, params, callbacks, plist,
           caller, handles, waited, calls, steps, cbcalls, obj, objname, result,
           t, sz, sizes, gathered >>

\* rank() ranges over 0..size()-1
Ranks == 0..(size - 1)

optVars == << opt, orig, atcall, callbacks, steps, cbcalls >>

objVars == << obj, objname, result, t, sz, sizes, gathered >>

\* ------------------------------------------------------------------------
\* Collective primitives (horovod.torch.mpi_ops)
\* ------------------------------------------------------------------------

\* The handle at position i of hs is the k-th operation of its name.
OccIdx(hs, i) == Cardinality({j \in 1..i : hs[j].name = hs[i].name})

\* A named operation is in flight from its enqueue to its completion.
InFlight(hs, name) ==
    name # "None" /\ \E i \in 1..Len(hs) : hs[i].name = name /\ hs[i].status = "pending"

\* The position on rank r of the k-th operation named n, 0 if not issued.
PosOf(hs, n, k) ==
    IF \E i \in 1..Len(hs) : hs[i].name = n /\ OccIdx(hs, i) = k
    THEN CHOOSE i \in 1..Len(hs) : hs[i].name = n /\ OccIdx(hs, i) = k
    ELSE 0

\* Every rank has issued the k-th operation named n and it has not run.
Ready(n, k) ==
    \A r \in Ranks : /\ PosOf(handles[r], n, k) # 0
                     /\ handles[r][PosOf(handles[r], n, k)].status = "pending"

\* Operations run in the order rank 0 issued them: the next one is rank 0's
\* first pending handle.  After a failure the job runs no further operation.
HasPending(hs) == \E i \in 1..Len(hs) : hs[i].status = "pending"

FirstPending(hs) ==
    CHOOSE i \in 1..Len(hs) :
        /\ hs[i].status = "pending"
        /\ \A j \in 1..(i - 1) : hs[j].status # "pending"

Failed == \E r \in Ranks : \E i \in 1..Len(handles[r]) : handles[r][i].status = "error"

\* The broadcast runs: root's buffer is copied into every rank's buffer.
Transfer ==
    /\ ~Failed
    /\ HasPending(handles[0])
    /\ LET i == FirstPending(handles[0])
           n == handles[0][i].name
           k == OccIdx(handles[0], i)
           src == heap[root_rank][handles[root_rank][PosOf(handles[root_rank], n, k)].p]
       IN  /\ Ready(n, k)
           /\ handles[0][i].op = "broadcast"
           /\ \A r \in Ranks :
                 Len(heap[r][handles[r][PosOf(handles[r], n, k)].p]) = Len(src)
           /\ heap' = [r \in Ranks |->
                         [heap[r] EXCEPT ![handles[r][PosOf(handles[r], n, k)].p] = src]]
           /\ handles' = [r \in Ranks |->
                         [handles[r] EXCEPT ![PosOf(handles[r], n, k)].status = "ok"]]
    /\ UNCHANGED << objVars, size, root_rank, pc, err, params, plist, caller, waited,
                    calls, optVars >>

\* The buffers of ranks r..size-1, concatenated in rank order.
RECURSIVE ConcatFrom(_, _)
ConcatFrom(buf, r) ==
    IF r >= size THEN << >> ELSE buf[r] \o ConcatFrom(buf, r + 1)

\* The allgather runs: every rank receives, as a new tensor, the ranks'
\* buffers concatenated in rank order.
Gather ==
    /\ ~Failed
    /\ HasPending(handles[0])
    /\ LET i == FirstPending(handles[0])
           n == handles[0][i].name
           k == OccIdx(handles[0], i)
           all == ConcatFrom([r \in Ranks |->
                                heap[r][handles[r][PosOf(handles[r], n, k)].p]], 0)
       IN  /\ Ready(n, k)
           /\ handles[0][i].op = "allgather"
           /\ heap' = [r \in Ranks |-> Append(heap[r], all)]
           /\ handles' = [r \in Ranks |->
                         [handles[r] EXCEPT ![PosOf(handles[r], n, k)].status = "ok",
                                            ![PosOf(handles[r], n, k)].out =
                                                  Len(heap[r]) + 1]]
    /\ UNCHANGED << objVars, size, root_rank, pc, err, params, plist, caller, waited,
                    calls, optVars >>

\* The operation fails (transport error, or buffers of different shapes):
\* every rank's handle completes with an error and no buffer is written.
TransferFail ==
    /\ ~Failed
    /\ HasPending(handles[0])
    /\ LET i == FirstPending(handles[0])
           n == handles[0][i].name
           k == OccIdx(handles[0], i)
       IN  /\ Ready(n, k)
           /\ handles' = [r \in Ranks |->
                         [handles[r] EXCEPT ![PosOf(handles[r], n, k)].status = "error"]]
    /\ UNCHANGED << objVars, size, root_rank, pc, err, heap, params, plist, caller,
                    waited, calls, optVars >>

\* ------------------------------------------------------------------------
\* broadcast_parameters (lines 30-59)
\* ------------------------------------------------------------------------

\* The keys a mapping may hold, in the order sorted() gives them.
Alphabet == << "bias", "running_mean", "running_var", "weight" >>

KeyIdx(name) == CHOOSE i \in 1..Len(Alphabet) : Alphabet[i] = name

RECURSIVE Insert(_, _)
Insert(sorted, x) ==
    IF sorted = << >> THEN << x >>
    ELSE IF KeyIdx(x.name) < KeyIdx(Head(sorted).name) THEN << x >> \o sorted
    ELSE << Head(sorted) >> \o Insert(Tail(sorted), x)

\* params.items() in insertion order, without the sort.
UnsortedItems(items) == [i \in 1..Len(items) |-> [name |-> items[i].name, p |-> items[i].p]]

\* sorted(params.items())
RECURSIVE SortedItems(_)
SortedItems(items) ==
    IF items = << >> THEN << >>
    ELSE Insert(SortedItems(SubSeq(items, 1, Len(items) - 1)), items[Len(items)])

\* [p if isinstance(p, tuple) else (None, p) for p in params]
ListItems(items) ==
    [i \in 1..Len(items) |->
        [name |-> IF items[i].tup THEN items[i].name ELSE "None", p |-> items[i].p]]

\* Where broadcast_parameters returns to.
ReturnPc(r) == IF caller[r] = "bos" THEN "bos_callbacks" ELSE "done"

\* Every argument taken for a list.
RecognizedAlways(arg) == TRUE

\* Lines 43-46: isinstance(params, dict) or isinstance(params, list).
Recognized(arg) == arg.kind \in {"dict", "list"}

\* Lines 43-49.
BpEntry(r) ==
    /\ pc[r] = "bp_entry"
    /\ IF Recognized(params[r])
       THEN LET l == IF params[r].kind = "dict" THEN SortedItems(params[r].items)
                     ELSE ListItems(params[r].items)
            IN  /\ plist' = [plist EXCEPT ![r] = l]
                /\ pc' = [pc EXCEPT ![r] = IF l = << >> THEN ReturnPc(r) ELSE "bp_run"]
                /\ err' = err
       ELSE /\ pc' = [pc EXCEPT ![r] = "raised"]
            /\ err' = [err EXCEPT ![r] = "ValueError: invalid params"]
            /\ plist' = plist
    /\ UNCHANGED << objVars, size, root_rank, heap, params, caller, handles, waited, calls,
                    optVars >>

\* Lines 53-55: handle = broadcast_async_(p, root_rank, name).  The enqueue
\* is refused while an operation of the same name is in flight.
BpAsync(r) ==
    /\ pc[r] = "bp_run"
    /\ Len(handles[r]) < Len(plist[r])
    /\ LET x == plist[r][Len(handles[r]) + 1] IN
          /\ calls' = [calls EXCEPT ![r] =
                          Append(@, [op |-> "broadcast_async_", name |-> x.name])]
          /\ IF InFlight(handles[r], x.name)
             THEN /\ pc' = [pc EXCEPT ![r] = "raised"]
                  /\ err' = [err EXCEPT ![r] = "DuplicateName"]
                  /\ handles' = handles
             ELSE /\ handles' = [handles EXCEPT ![r] =
                          Append(@, [op |-> "broadcast", name |-> x.name, p |-> x.p,
                                     out |-> x.p, status |-> "pending"])]
                  /\ UNCHANGED << pc, err >>
    /\ UNCHANGED << objVars, size, root_rank, heap, params, plist, caller, waited, optVars >>

\* The wait loop running alongside the issue loop.
WaitEnabledAlways(r) == TRUE

\* The first loop has issued every broadcast before the second loop waits.
WaitEnabled(r) == Len(handles[r]) = Len(plist[r])

\* The second loop ends after the wait on the last handle.
ReturnsAfterFirst(r, w) == w >= 1

ReturnsAfter(r, w) == w = Len(plist[r])

\* Lines 58-59: synchronize(handle), in the order the handles were issued.
BpWait(r) ==
    /\ pc[r] = "bp_run"
    /\ WaitEnabled(r)
    /\ waited[r] < Len(handles[r])
    /\ LET h == handles[r][waited[r] + 1] IN
          /\ h.status # "pending"
          /\ calls' = [calls EXCEPT ![r] =
                          Append(@, [op |-> "synchronize", name |-> h.name])]
          /\ IF h.status = "ok"
             THEN /\ waited' = [waited EXCEPT ![r] = @ + 1]
                  /\ pc' = [pc EXCEPT ![r] =
                              IF ReturnsAfter(r, waited[r] + 1) THEN ReturnPc(r) ELSE @]
                  /\ err' = err
             ELSE /\ pc' = [pc EXCEPT ![r] = "raised"]
                  /\ err' = [err EXCEPT ![r] = "HorovodInternalError"]
                  /\ waited' = waited
    /\ UNCHANGED << objVars, size, root_rank, heap, params, plist, caller, handles, optVars >>

\* ------------------------------------------------------------------------
\* broadcast_optimizer_state (lines 62-183)
\* ------------------------------------------------------------------------

\* Lines 71-75: isinstance(optimizer, torch.optim.LBFGS).
IsLBFGSNever(o) == FALSE

IsLBFGS(o) == o.cls = "LBFGS"

BosEntry(r) ==
    /\ pc[r] = "bos_entry"
    /\ IF IsLBFGS(opt[r])
       THEN /\ pc' = [pc EXCEPT ![r] = "raised"]
            /\ err' = [err EXCEPT ![r] = "ValueError: cannot broadcast torch.optim.LBFGS state"]
       ELSE /\ pc' = [pc EXCEPT ![r] = "bos_init"]
            /\ err' = err
    /\ UNCHANGED << objVars, size, root_rank, heap, params, plist, caller, handles, waited,
                    calls, optVars >>

\* optimizer.step() of the optimizer's own class: the class DistributedOptimizer
\* creates overrides step() with one that allreduces the gradients.
OwnStep(o) == IF o.distributed THEN "distributed" ELSE "base"

\* Lines 91-94: which update rule lazy initialization invokes.
StepRuleOwn(o) == OwnStep(o)

StepRule(o) ==
    IF o.module = DistributedModule THEN "base" ELSE OwnStep(o)

\* Lines 82-85: p.grad = p.data.new(p.size()).zero_()
ZeroGrads(o) ==
    [o EXCEPT !.grad = [p \in Pids |-> IF o.requires_grad[p] THEN "zeros" ELSE @[p]]]

\* len(state_dict['state']) == 0
StateEmpty(o) == DOMAIN o.state = {}

\* Lines 101-102: the state is still empty after initialization.
StillEmptyNever(o) == FALSE

StillEmpty(o) == StateEmpty(o)

\* Lines 77-102: lazy initialization and the stateless return.
BosInit(r) ==
    /\ pc[r] = "bos_init"
    /\ IF StateEmpty(opt[r])
       THEN LET z    == ZeroGrads(opt[r])
                rule == StepRule(z)
                s    == BaseStep(z, heap[r], 0)
            IN  /\ opt' = [opt EXCEPT ![r] = s.opt]
                /\ heap' = [heap EXCEPT ![r] = s.heap]
                /\ steps' = [steps EXCEPT ![r] = Append(@, rule)]
                /\ calls' = [calls EXCEPT ![r] =
                                IF rule = "distributed"
                                THEN Append(@, [op |-> "allreduce_async_", name |-> "None"])
                                ELSE @]
                /\ pc' = [pc EXCEPT ![r] =
                                IF StillEmpty(s.opt) THEN "done" ELSE "bos_build"]
       ELSE /\ pc' = [pc EXCEPT ![r] = "bos_build"]
            /\ UNCHANGED << opt, heap, steps, calls >>
    /\ UNCHANGED << objVars, size, root_rank, err, orig, atcall, params, callbacks, plist,
                    caller, handles, waited, cbcalls >>

\* Lines 104-178: build params and callbacks, call broadcast_parameters.
BosBuild(r) ==
    /\ pc[r] = "bos_build"
    /\ LET b == BuildBatch(opt[r], heap[r]) IN
          /\ heap' = [heap EXCEPT ![r] = b.heap]
          /\ callbacks' = [callbacks EXCEPT ![r] = b.callbacks]
          /\ params' = [params EXCEPT ![r] =
                [kind |-> "list",
                 items |-> [i \in 1..Len(b.params) |->
                              [name |-> b.params[i].key, p |-> b.params[i].p,
                               tup |-> TRUE]]]]
    /\ atcall' = [atcall EXCEPT ![r] = View(opt[r], heap[r])]
    /\ caller' = [caller EXCEPT ![r] = "bos"]
    /\ pc' = [pc EXCEPT ![r] = "bp_entry"]
    /\ UNCHANGED << objVars, size, root_rank, err, opt, orig, plist, handles, waited,
                    calls, steps, cbcalls >>

\* Writing a value into an ordered mapping held as a sequence of pairs.
SetField(entries, name, v) ==
    IF \E i \in 1..Len(entries) : entries[i].name = name
    THEN [i \in 1..Len(entries) |->
            IF entries[i].name = name THEN [name |-> name, v |-> v] ELSE entries[i]]
    ELSE Append(entries, [name |-> name, v |-> v])

SetOption(options, k, v) ==
    [i \in 1..Len(options) |->
        IF options[i].k = k THEN [k |-> k, v |-> v] ELSE options[i]]

\* The _from_tensor closures of lines 128-136.
RunCallback(o, cb, h) ==
    LET v == recursive_cast(h[cb.p][1], cb.dtypes) IN
    IF cb.kind = "state"
    THEN [o EXCEPT !.state[cb.pid] = SetField(@, cb.name, v)]
    ELSE [o EXCEPT !.param_groups[cb.index + 1].options = SetOption(@, cb.name, v)]

\* Lines 181-183: for key, p in params: if key in callbacks: callbacks[key]()
RECURSIVE RunCallbacks(_, _, _, _, _)
RunCallbacks(acc, items, cbs, h, i) ==
    IF i > Len(items) THEN acc
    ELSE IF items[i].name \in DOMAIN cbs
         THEN RunCallbacks([opt |-> RunCallback(acc.opt, cbs[items[i].name], h),
                            log |-> Append(acc.log, cbs[items[i].name])],
                           items, cbs, h, i + 1)
         ELSE RunCallbacks(acc, items, cbs, h, i + 1)

BosCallbacks(r) ==
    /\ pc[r] = "bos_callbacks"
    /\ LET res == RunCallbacks([opt |-> opt[r], log |-> cbcalls[r]],
                               params[r].items, callbacks[r], heap[r], 1)
       IN  /\ opt' = [opt EXCEPT ![r] = res.opt]
           /\ cbcalls' = [cbcalls EXCEPT ![r] = res.log]
    /\ pc' = [pc EXCEPT ![r] = "done"]
    /\ UNCHANGED << objVars, size, root_rank, err, orig, atcall, heap, params, callbacks,
                    plist, caller, handles, waited, calls, steps >>

\* ------------------------------------------------------------------------
\* Every rank calls broadcast_optimizer_state(optimizer, root_rank)
\* ------------------------------------------------------------------------

\* Rank r's optimizer: freshly constructed, or with materialized state.
MakeOptimizer(cls, dist, layout, rg, mat, prof) ==
    LET module == IF dist THEN DistributedModule ELSE PlainModule
    IN  IF mat
        THEN TrainedOptimizer(cls, module, layout, rg, prof)
        ELSE [opt |-> NewOptimizer(cls, module, layout, rg, prof), heap |-> << >>]

\* Whether each parameter requires gradients: both, only the second, none.
RequiresGrad == { [p \in Pids |-> TRUE], [p \in Pids |-> p = 1], [p \in Pids |-> FALSE] }

\* The ranks hold optimizers of one structure; every non-root rank starts from
\* values other than the root's, and each rank's state is materialized or not.
InitOpt ==
    \E n \in 1..MaxWorldSize, cls \in Classes, dist \in BOOLEAN, layout \in Layouts,
       rg \in RequiresGrad, rprof \in Profiles :
      \E root \in 0..(n - 1), mat \in [0..(n - 1) -> BOOLEAN] :
        LET prof(r) == IF r = root THEN rprof ELSE 3 - rprof
            mk(r) == MakeOptimizer(cls, dist, layout, rg, mat[r], prof(r))
        IN
        /\ size = n
        /\ root_rank = root
        /\ pc = [r \in 0..(n - 1) |-> "bos_entry"]
        /\ err = [r \in 0..(n - 1) |-> ""]
        /\ opt = [r \in 0..(n - 1) |-> mk(r).opt]
        /\ heap = [r \in 0..(n - 1) |-> mk(r).heap]
        /\ orig = [r \in 0..(n - 1) |-> View(mk(r).opt, mk(r).heap)]
        /\ atcall = [r \in 0..(n - 1) |-> View(mk(r).opt, mk(r).heap)]
        /\ params = [r \in 0..(n - 1) |-> [kind |-> "list", items |-> << >>]]
        /\ callbacks = [r \in 0..(n - 1) |-> << >>]
        /\ plist = [r \in 0..(n - 1) |-> << >>]
        /\ caller = [r \in 0..(n - 1) |-> "bos"]
        /\ handles = [r \in 0..(n - 1) |-> << >>]
        /\ waited = [r \in 0..(n - 1) |-> 0]
        /\ calls = [r \in 0..(n - 1) |-> << >>]
        /\ steps = [r \in 0..(n - 1) |-> << >>]
        /\ cbcalls = [r \in 0..(n - 1) |-> << >>]
        /\ obj = [r \in 0..(n - 1) |-> PyNone]
        /\ objname = [r \in 0..(n - 1) |-> "None"]
        /\ result = [r \in 0..(n - 1) |-> PyNone]
        /\ t = [r \in 0..(n - 1) |-> 0]
        /\ sz = [r \in 0..(n - 1) |-> 0]
        /\ sizes = [r \in 0..(n - 1) |-> 0]
        /\ gathered = [r \in 0..(n - 1) |-> 0]

NextOpt ==
    \/ \E r \in Ranks : BosEntry(r)
    \/ \E r \in Ranks : BosInit(r)
    \/ \E r \in Ranks : BosBuild(r)
    \/ \E r \in Ranks : BpEntry(r)
    \/ \E r \in Ranks : BpAsync(r)
    \/ \E r \in Ranks : BpWait(r)
    \/ \E r \in Ranks : BosCallbacks(r)
    \/ Transfer
    \/ TransferFail

SpecOpt == InitOpt /\ [][NextOpt]_vars

\* The root was restored from a checkpoint whose state covers the parameters
\* that received gradients in training; the other ranks hold optimizers of
\* the same parameter groups, hyperparameter names and parameters, freshly
\* constructed or restored from the same checkpoint.
InitRestore ==
    \E n \in 1..MaxWorldSize, cls \in Classes \ {"LBFGS"}, layout \in Layouts,
       rg \in RequiresGrad, had \in RequiresGrad :
      \E root \in 0..(n - 1), mat \in [0..(n - 1) -> BOOLEAN] :
        LET mk(r) == IF r = root \/ mat[r]
                     THEN RestoredOptimizer(cls, PlainModule, layout, rg, had,
                                            IF r = root THEN 1 ELSE 2)
                     ELSE [opt |-> NewOptimizer(cls, PlainModule, layout, rg, 2),
                           heap |-> << >>]
        IN
        /\ size = n
        /\ root_rank = root
        /\ pc = [r \in 0..(n - 1) |-> "bos_entry"]
        /\ err = [r \in 0..(n - 1) |-> ""]
        /\ opt = [r \in 0..(n - 1) |-> mk(r).opt]
        /\ heap = [r \in 0..(n - 1) |-> mk(r).heap]
        /\ orig = [r \in 0..(n - 1) |-> View(mk(r).opt, mk(r).heap)]
        /\ atcall = [r \in 0..(n - 1) |-> View(mk(r).opt, mk(r).heap)]
        /\ params = [r \in 0..(n - 1) |-> [kind |-> "list", items |-> << >>]]
        /\ callbacks = [r \in 0..(n - 1) |-> << >>]
        /\ plist = [r \in 0..(n - 1) |-> << >>]
        /\ caller = [r \in 0..(n - 1) |-> "bos"]
        /\ handles = [r \in 0..(n - 1) |-> << >>]
        /\ waited = [r \in 0..(n - 1) |-> 0]
        /\ calls = [r \in 0..(n - 1) |-> << >>]
        /\ steps = [r \in 0..(n - 1) |-> << >>]
        /\ cbcalls = [r \in 0..(n - 1) |-> << >>]
        /\ obj = [r \in 0..(n - 1) |-> PyNone]
        /\ objname = [r \in 0..(n - 1) |-> "None"]
        /\ result = [r \in 0..(n - 1) |-> PyNone]
        /\ t = [r \in 0..(n - 1) |-> 0]
        /\ sz = [r \in 0..(n - 1) |-> 0]
        /\ sizes = [r \in 0..(n - 1) |-> 0]
        /\ gathered = [r \in 0..(n - 1) |-> 0]

SpecRestore == InitRestore /\ [][NextOpt]_vars

\* ------------------------------------------------------------------------
\* Properties of broadcast_optimizer_state
\* ------------------------------------------------------------------------

AllDone == \A r \in Ranks : pc[r] = "done"

\* Rank r built a batch (lines 104-175 ran).
Built(r) == pc[r] \in {"bp_entry", "bp_run", "bos_callbacks"} \/ cbcalls[r] # << >>

\* The scalar state fields of a view, by parameter and field.
ScalarFields(state) ==
    [pid \in DOMAIN state |->
        [i \in 1..Len(state[pid]) |->
            IF state[pid][i].v.ty = "tensor" THEN "tensor" ELSE state[pid][i].v]]

\* A value as it arrives after torch.Tensor([v]) and the cast back.
RoundTrip(v) == recursive_cast(ToElem(v), get_types(v))

\* The batch of rank r failed: an enqueue was refused or a handle of it
\* completed with an error.
BatchFailed(r) ==
    \/ err[r] = "DuplicateName"
    \/ \E i \in 1..Len(handles[r]) : handles[r][i].status = "error"

\* C1 (as stated): once broadcast_optimizer_state has returned on all ranks,
\* every non-root rank's hyperparameters and per-parameter state equal the
\* root's state as it was when the root made the call.  Stated for a root
\* whose state was materialized and for batches whose keys are distinct.
C1_StateRoundTrip ==
    (/\ AllDone
     /\ orig[root_rank].state # << >>
     /\ \A r \in Ranks : NamesDistinct(params[r].items))
    => \A r \in Ranks \ {root_rank} :
          /\ OptionsView(opt[r]) = orig[root_rank].options
          /\ StateView(opt[r], heap[r]) = orig[root_rank].state

\* C5 (as stated): in every batch that broadcast_optimizer_state passes to
\* broadcast_parameters, the keys are pairwise distinct.
C5_BatchKeysDistinct ==
    \A r \in Ranks : Built(r) => NamesDistinct(params[r].items)

\* C6 (as stated): after the broadcast every scalar state field of every
\* parameter holds the value received for that field of that parameter, that
\* is the root's value of the same field as carried by a float32 tensor.
C6_WriteBackToOwner ==
    AllDone =>
        \A r \in Ranks : \A pid \in DOMAIN opt[r].state :
            \A i \in 1..Len(opt[r].state[pid]) :
                opt[r].state[pid][i].v.ty # "tensor" =>
                    opt[r].state[pid][i].v = RoundTrip(opt[root_rank].state[pid][i].v)

\* C7 (as stated): when the batched broadcast fails on a rank, the error is
\* raised and nothing of the optimizer differs from before the call:
\* hyperparameters, scalar state fields and tensor-valued state fields.
C7_NoMutationOnFailure ==
    \A r \in Ranks :
        (pc[r] = "raised" /\ BatchFailed(r)) =>
            /\ OptionsView(opt[r]) = orig[r].options
            /\ StateView(opt[r], heap[r]) = orig[r].state

\* C7 (amended): once the batch of a rank has failed, the call on that rank
\* never returns normally and runs no reconstruction callback: it is still
\* inside broadcast_parameters or has raised the error, its hyperparameters
\* are those from before the call, and its scalar state fields are those it
\* had when broadcast_parameters was called.
C7_NoCallbackOnFailure ==
    \A r \in Ranks :
        BatchFailed(r) =>
            /\ pc[r] \in {"bp_run", "raised"}
            /\ pc[r] = "raised" => err[r] \in {"DuplicateName", "HorovodInternalError"}
            /\ cbcalls[r] = << >>
            /\ OptionsView(opt[r]) = orig[r].options
            /\ ScalarFields(StateView(opt[r], heap[r])) = ScalarFields(atcall[r].state)

\* C7 witness: a rank raised the error of a failed handle after an earlier
\* broadcast of the batch had already overwritten a tensor-valued field.
C7_Witness ==
    \E r \in Ranks :
        /\ pc[r] = "raised"
        /\ err[r] = "HorovodInternalError"
        /\ orig[r].state # << >>
        /\ StateView(opt[r], heap[r]) # orig[r].state

\* C8: on an L-BFGS optimizer the call raises the ValueError of line 75
\* with no collective call issued, no lazy-initialization step taken, and
\* state and gradients as before the call.
C8_LBFGSRejected ==
    \A r \in Ranks :
        (opt[r].cls = "LBFGS" /\ pc[r] # "bos_entry") =>
            /\ pc[r] = "raised"
            /\ err[r] = "ValueError: cannot broadcast torch.optim.LBFGS state"
            /\ calls[r] = << >>
            /\ handles[r] = << >>
            /\ steps[r] = << >>
            /\ View(opt[r], heap[r]) = orig[r]

C8_Witness ==
    \E r \in Ranks :
        /\ opt[r].cls = "LBFGS"
        /\ pc[r] = "raised"
        /\ orig[r].state # << >>

\* C9: when the per-parameter state is empty and still empty after the lazy
\* initialization step, the call returns without error, with no collective
\* call issued and no reconstruction callback invoked.
C9_StatelessNoOp ==
    \A r \in Ranks :
        (/\ pc[r] \notin {"bos_entry", "bos_init"}
         /\ opt[r].cls # "LBFGS"
         /\ StateEmpty(opt[r])) =>
            /\ pc[r] = "done"
            /\ err[r] = ""
            /\ calls[r] = << >>
            /\ handles[r] = << >>
            /\ cbcalls[r] = << >>

C9_Witness ==
    \E r \in Ranks :
        /\ pc[r] = "done"
        /\ StateEmpty(opt[r])
        /\ steps[r] = << "base" >>
        /\ size > 1

\* C10: lazy initialization invokes exactly one step, the base update rule,
\* for a plain and for a distributed optimizer, so the first collective call
\* of a rank is the first broadcast of the batch.
C10_LazyInitBaseStep ==
    \A r \in Ranks :
        /\ steps[r] \in { << >>, << "base" >> }
        /\ (pc[r] \notin {"bos_entry", "bos_init"} /\ opt[r].cls # "LBFGS")
              => (steps[r] = << "base" >> <=> orig[r].state = << >>)
        /\ calls[r] # << >> => calls[r][1].op = "broadcast_async_"

C10_Witness ==
    \E r \in Ranks :
        /\ opt[r].distributed
        /\ steps[r] = << "base" >>
        /\ Len(calls[r]) > 0

\* How often rank r invoked the callback registered under key.
Invocations(r, key) ==
    Cardinality({i \in 1..Len(cbcalls[r]) : cbcalls[r][i] = callbacks[r][key]})

\* C15 (as stated): every registered reconstruction callback is invoked
\* exactly once per call, and only after broadcast_parameters has returned:
\* when a callback has run, every handle of the batch was waited on and
\* none of its broadcasts is in flight.
C15_CallbacksOnceAfterBatch ==
    \A r \in Ranks :
        /\ cbcalls[r] # << >> =>
              /\ Len(handles[r]) = Len(params[r].items)
              /\ waited[r] = Len(handles[r])
              /\ \A j \in 1..Len(handles[r]) : handles[r][j].status = "ok"
        /\ pc[r] = "done" =>
              \A key \in DOMAIN callbacks[r] : Invocations(r, key) = 1

\* C16 (as stated): on the root rank, when its per-parameter state was
\* materialized at call time, the call leaves every hyperparameter, every
\* scalar state field and every tensor state field with the value and type
\* it had before the call.  Stated for batches whose keys are distinct.
C16_RootUnchanged ==
    (/\ pc[root_rank] = "done"
     /\ orig[root_rank].state # << >>
     /\ NamesDistinct(params[root_rank].items))
    => /\ OptionsView(opt[root_rank]) = orig[root_rank].options
       /\ StateView(opt[root_rank], heap[root_rank]) = orig[root_rank].state

\* The keys of the batch rank r passed to broadcast_parameters, in order.
BatchKeys(r) == [i \in 1..Len(params[r].items) |-> params[r].items[i].name]

\* Rank r returned through the stateless path of lines 101-102.
StatelessReturn(r) == pc[r] = "done" /\ params[r].items = << >>

\* C18 (as stated): ranks whose optimizers have the same parameter groups,
\* hyperparameter names and parameters build the same ordered sequence of
\* broadcast keys, whether or not their state was materialized before the
\* call, and no rank returns through the stateless path while another rank
\* has a batch to broadcast.
C18_SameKeySequence ==
    \A r \in Ranks : \A q \in Ranks :
        /\ (params[r].items # << >> /\ params[q].items # << >>)
              => BatchKeys(r) = BatchKeys(q)
        /\ ~(StatelessReturn(r) /\ params[q].items # << >>)

\* ------------------------------------------------------------------------
\* Every rank calls broadcast_parameters(params, root_rank)
\* ------------------------------------------------------------------------

\* What callers pass: a dict (model.state_dict()), a list of (name, tensor)
\* pairs, a list of tensors, a list mixing both, or something that is neither
\* a dict nor a list (a generator such as model.named_parameters()).
Forms == {"dict", "named", "plain", "mixed", "generator"}

\* Tensor i of rank r; every rank holds other values.
ParamTensor(r, i) == << Leaf(10 * r + i, 0) >>

\* The params argument of rank r: tensor i is named Alphabet[n + 1 - i]; a
\* dict was filled in that order or, when rev, in the opposite order.
ParamsArg(form, n, rev) ==
    LET item(i) == [name |-> Alphabet[n + 1 - i], p |-> i,
                    tup |-> form \in {"dict", "named"} \/ (form = "mixed" /\ i = 1)]
    IN  [kind  |-> IF form = "dict" THEN "dict"
                   ELSE IF form = "generator" THEN "other" ELSE "list",
         items |-> [i \in 1..n |-> IF rev THEN item(n + 1 - i) ELSE item(i)]]

NoOptimizer == [cls |-> "none", state |-> << >>]

InitParams ==
    \E n \in 1..MaxWorldSize, form \in Forms, k \in 0..MaxTensors :
      \E root \in 0..(n - 1), rev \in [0..(n - 1) -> BOOLEAN] :
        /\ size = n
        /\ root_rank = root
        /\ pc = [r \in 0..(n - 1) |-> "bp_entry"]
        /\ err = [r \in 0..(n - 1) |-> ""]
        /\ opt = [r \in 0..(n - 1) |-> NoOptimizer]
        /\ heap = [r \in 0..(n - 1) |-> [i \in 1..k |-> ParamTensor(r, i)]]
        /\ orig = [r \in 0..(n - 1) |-> [i \in 1..k |-> ParamTensor(r, i)]]
        /\ atcall = [r \in 0..(n - 1) |-> << >>]
        /\ params = [r \in 0..(n - 1) |-> ParamsArg(form, k, form = "dict" /\ rev[r])]
        /\ callbacks = [r \in 0..(n - 1) |-> << >>]
        /\ plist = [r \in 0..(n - 1) |-> << >>]
        /\ caller = [r \in 0..(n - 1) |-> "user"]
        /\ handles = [r \in 0..(n - 1) |-> << >>]
        /\ waited = [r \in 0..(n - 1) |-> 0]
        /\ calls = [r \in 0..(n - 1) |-> << >>]
        /\ steps = [r \in 0..(n - 1) |-> << >>]
        /\ cbcalls = [r \in 0..(n - 1) |-> << >>]
        /\ obj = [r \in 0..(n - 1) |-> PyNone]
        /\ objname = [r \in 0..(n - 1) |-> "None"]
        /\ result = [r \in 0..(n - 1) |-> PyNone]
        /\ t = [r \in 0..(n - 1) |-> 0]
        /\ sz = [r \in 0..(n - 1) |-> 0]
        /\ sizes = [r \in 0..(n - 1) |-> 0]
        /\ gathered = [r \in 0..(n - 1) |-> 0]

NextParams ==
    \/ \E r \in Ranks : BpEntry(r)
    \/ \E r \in Ranks : BpAsync(r)
    \/ \E r \in Ranks : BpWait(r)
    \/ Transfer
    \/ TransferFail

SpecParams == InitParams /\ [][NextParams]_vars

\* C4: when broadcast_parameters returns on a rank, every tensor of params
\* on that rank holds, in place, the value the root's corresponding tensor
\* had when the call was made.
C4_TensorsHoldRootValue ==
    \A r \in Ranks :
        pc[r] = "done" =>
            \A i \in 1..Len(params[r].items) :
                heap[r][params[r].items[i].p] = orig[root_rank][params[r].items[i].p]

\* C4 witness: a non-root rank returned from a call on a dict of two tensors
\* that it had filled in another order than the root.
C4_Witness ==
    \E r \in Ranks \ {root_rank} :
        /\ pc[r] = "done"
        /\ params[r].kind = "dict"
        /\ Len(params[r].items) = 2
        /\ params[r].items # params[root_rank].items
        /\ heap[r] # orig[r]

ExpectedCalls(r) ==
    [j \in 1..Len(plist[r]) |-> [op |-> "broadcast_async_", name |-> plist[r][j].name]]
    \o [j \in 1..Len(plist[r]) |-> [op |-> "synchronize", name |-> plist[r][j].name]]

\* C13: broadcast_parameters issues exactly one asynchronous broadcast per
\* tensor, all of them before the first wait, then waits on every handle
\* once in the order of issue, and returns only after the last wait.
C13_IssueAllThenWait ==
    \A r \in Ranks :
        /\ Len(calls[r]) <= Len(ExpectedCalls(r))
        /\ calls[r] = SubSeq(ExpectedCalls(r), 1, Len(calls[r]))
        /\ \A j \in 1..Len(handles[r]) : handles[r][j].p = plist[r][j].p
        /\ (Recognized(params[r]) /\ pc[r] # "bp_entry") =>
              /\ Len(plist[r]) = Len(params[r].items)
              /\ \A i \in 1..Len(params[r].items) :
                    Cardinality({j \in 1..Len(plist[r]) : plist[r][j].p = i}) = 1
        /\ pc[r] = "done" =>
              /\ calls[r] = ExpectedCalls(r)
              /\ waited[r] = Len(handles[r])
              /\ \A j \in 1..Len(handles[r]) : handles[r][j].status = "ok"

\* C13 witness: a rank of a two-rank world returned after two broadcasts
\* and two waits.
C13_Witness ==
    \E r \in Ranks :
        /\ size = 2
        /\ pc[r] = "done"
        /\ Len(calls[r]) = 4
        /\ calls[r][2].op = "broadcast_async_"
        /\ calls[r][3].op = "synchronize"

\* The broadcasts rank r has issued so far, in order.
Issued(r) ==
    LET isAsync(c) == c.op = "broadcast_async_" IN SelectSeq(calls[r], isAsync)

\* The keys of a mapping in ascending order.
AscendingKeys(items) ==
    LET held(k) == \E i \in 1..Len(items) : items[i].name = k
    IN  SelectSeq(Alphabet, held)

\* The tensor a mapping holds under key k.
ValueOf(items, k) == (CHOOSE i \in 1..Len(items) : items[i].name = k)

\* C17: for a mapping the broadcasts are issued in ascending key order
\* whatever the insertion order, each under its key with the tensor held
\* under that key, so ranks holding the same keys issue the same names; for
\* a list they are issued in list order, an element that is not a pair
\* under no name.
C17_IssueOrder ==
    \A r \in Ranks :
        /\ params[r].kind = "dict" =>
              \A j \in 1..Len(Issued(r)) :
                  /\ Issued(r)[j].name = AscendingKeys(params[r].items)[j]
                  /\ handles[r][j].p =
                        params[r].items[ValueOf(params[r].items, Issued(r)[j].name)].p
                  /\ \A q \in Ranks :
                        Len(Issued(q)) >= j => Issued(q)[j].name = Issued(r)[j].name
        /\ params[r].kind = "list" =>
              \A j \in 1..Len(Issued(r)) :
                  /\ Issued(r)[j].name =
                        IF params[r].items[j].tup THEN params[r].items[j].name ELSE "None"
                  /\ handles[r][j].p = params[r].items[j].p
        /\ pc[r] = "done" => Len(Issued(r)) = Len(params[r].items)

\* C17 witness: two ranks filled a dict of two tensors in opposite orders
\* and both issued the two broadcasts.
C17_Witness ==
    /\ size = 2
    /\ params[0].kind = "dict"
    /\ Len(params[0].items) = 2
    /\ params[0].items[1].name = params[1].items[2].name
    /\ params[0].items[1].name # params[1].items[1].name
    /\ Len(Issued(0)) = 2
    /\ Len(Issued(1)) = 2

\* ------------------------------------------------------------------------
\* cloudpickle: objects to bytes and back
\* ------------------------------------------------------------------------

\* type(obj).__name__
TypeName(o) == IF o.ty = "none" THEN "NoneType" ELSE o.ty

\* cloudpickle.dump raises on an object that cannot be pickled, such as a
\* generator, also when it is an item of a tuple.
RECURSIVE Picklable(_)
Picklable(o) ==
    /\ o.ty # "generator"
    /\ \A i \in 1..Len(o.items) : Picklable(o.items[i])

\* The pickle of an object: None is N, an int below 256 is K and one byte,
\* a larger int is M and two bytes (low byte first), a function of a module
\* is c (a reference to it), a tuple is its items followed by ")" if empty,
\* TUPLE1 or TUPLE2.
RECURSIVE Encode(_)
Encode(o) ==
    IF o.ty = "none" THEN << 78 >>
    ELSE IF o.ty = "function" THEN << 99 >>
    ELSE IF o.ty = "int"
    THEN (IF o.m < 256 THEN << 75, o.m >> ELSE << 77, o.m % 256, o.m \div 256 >>)
    ELSE IF Len(o.items) = 0 THEN << 41 >>
    ELSE IF Len(o.items) = 1 THEN Encode(o.items[1]) \o << 133 >>
    ELSE Encode(o.items[1]) \o Encode(o.items[2]) \o << 134 >>

\* cloudpickle.dump(obj, b); b.getvalue(): PROTO 2, the object, STOP.
Dumps(o) == << 128, 2 >> \o Encode(o) \o << 46 >>

UnpicklingError == [ty |-> "UnpicklingError", m |-> 0, e |-> 0, items |-> << >>]

\* The unpickler: a stack machine over the bytes from position i.
RECURSIVE Unpickle(_, _, _)
Unpickle(bytes, i, stack) ==
    IF i > Len(bytes) THEN UnpicklingError
    ELSE LET op == bytes[i] n == Len(stack) IN
         IF op = 46 THEN (IF n = 1 THEN stack[1] ELSE UnpicklingError)
         ELSE IF op = 78 THEN Unpickle(bytes, i + 1, Append(stack, PyNone))
         ELSE IF op = 99 THEN Unpickle(bytes, i + 1, Append(stack, PyFunction))
         ELSE IF op = 75 /\ i + 1 <= Len(bytes)
              THEN Unpickle(bytes, i + 2, Append(stack, PyInt(bytes[i + 1])))
         ELSE IF op = 77 /\ i + 2 <= Len(bytes)
              THEN Unpickle(bytes, i + 3,
                            Append(stack, PyInt(bytes[i + 1] + 256 * bytes[i + 2])))
         ELSE IF op = 41 THEN Unpickle(bytes, i + 1, Append(stack, PyTuple(<< >>)))
         ELSE IF op = 133 /\ n >= 1
              THEN Unpickle(bytes, i + 1,
                            Append(SubSeq(stack, 1, n - 1), PyTuple(<< stack[n] >>)))
         ELSE IF op = 134 /\ n >= 2
              THEN Unpickle(bytes, i + 1,
                            Append(SubSeq(stack, 1, n - 2),
                                   PyTuple(<< stack[n - 1], stack[n] >>)))
         ELSE UnpicklingError

\* The pickle refers to a module attribute: cloudpickle.load imports it and
\* raises on a rank where the module or the attribute is missing.
HasReference(bytes) == \E i \in 1..Len(bytes) : bytes[i] = 99

\* cloudpickle.load(buf)
Loads(bytes) ==
    IF Len(bytes) >= 2 /\ bytes[1] = 128 /\ bytes[2] = 2
    THEN Unpickle(bytes, 3, << >>)
    ELSE UnpicklingError

\* The objects callers pass; the pickles of the first five have lengths 4,
\* 5, 6, 4 and 7; a function is pickled by reference, a generator cannot be
\* pickled.
Objects ==
    { PyNone, PyInt(7), PyInt(300), PyTuple(<< >>), PyTuple(<< PyInt(7), PyNone >>),
      PyFunction, PyGenerator }

\* name = type(obj).__name__ when no name is given (lines 206-207, 241-242).
ChannelName(name, o) == IF name = "None" THEN TypeName(o) ELSE name

\* broadcast_(t, root_rank, name) and allgather(t, name) enqueue the
\* operation and block until it has completed.
Enqueue(r, op, name, p) ==
    /\ handles' = [handles EXCEPT ![r] =
          Append(@, [op |-> op, name |-> name, p |-> p, out |-> p,
                     status |-> "pending"])]
    /\ calls' = [calls EXCEPT ![r] = Append(@, [op |-> op, name |-> name])]

\* The handle of the operation rank r is blocked in.
Current(r) == handles[r][Len(handles[r])]

\* The blocking operation completed with an error: the call raises.
Raise(r) ==
    /\ pc' = [pc EXCEPT ![r] = "raised"]
    /\ err' = [err EXCEPT ![r] = "HorovodInternalError"]

\* ------------------------------------------------------------------------
\* broadcast_object (lines 186-226)
\* ------------------------------------------------------------------------

\* A buffer allocated before the length is known.
UninitializedEmpty(n, fill) == << >>

\* torch.ByteTensor(n) is uninitialized memory: here all zeros or all 255.
Uninitialized(n, fill) == [i \in 1..n |-> fill]

\* The codec raised: the call raises its error.
RaiseCodec(r, e) ==
    /\ pc' = [pc EXCEPT ![r] = "raised"]
    /\ err' = [err EXCEPT ![r] = e]

\* Lines 206-217: the root pickles obj into t and puts its length in sz,
\* the others put 0 in sz; every rank broadcasts sz under name + '.sz'.
\* The root's call raises at line 211, before any broadcast, when obj cannot
\* be pickled.
BoStart(r) ==
    /\ pc[r] = "bo_entry"
    /\ IF r = root_rank /\ ~Picklable(obj[r])
       THEN /\ RaiseCodec(r, "PicklingError")
            /\ UNCHANGED << heap, t, sz, handles, calls >>
       ELSE /\ LET name == ChannelName(objname[r], obj[r])
                   bytes == Dumps(obj[r])
               IN  IF r = root_rank
                   THEN /\ heap' = [heap EXCEPT ![r] = @ \o << bytes, << Len(bytes) >> >>]
                        /\ t' = [t EXCEPT ![r] = Len(heap[r]) + 1]
                        /\ sz' = [sz EXCEPT ![r] = Len(heap[r]) + 2]
                        /\ Enqueue(r, "broadcast", name \o ".sz", Len(heap[r]) + 2)
                   ELSE /\ heap' = [heap EXCEPT ![r] = Append(@, << 0 >>)]
                        /\ t' = t
                        /\ sz' = [sz EXCEPT ![r] = Len(heap[r]) + 1]
                        /\ Enqueue(r, "broadcast", name \o ".sz", Len(heap[r]) + 1)
            /\ pc' = [pc EXCEPT ![r] = "bo_sz"]
            /\ err' = err
    /\ UNCHANGED << obj, objname, result, sizes, gathered, size, root_rank, params,
                    plist, caller, waited, optVars >>

\* Lines 218-220: the size broadcast returned; a non-root rank allocates t
\* of the received length; every rank broadcasts t under name + '.t'.
BoSize(r) ==
    /\ pc[r] = "bo_sz"
    /\ Current(r).status # "pending"
    /\ IF Current(r).status = "error"
       THEN /\ Raise(r)
            /\ UNCHANGED << heap, t, handles, calls >>
       ELSE /\ LET name == ChannelName(objname[r], obj[r]) IN
               IF r = root_rank
               THEN /\ Enqueue(r, "broadcast", name \o ".t", t[r])
                    /\ UNCHANGED << heap, t >>
               ELSE \E fill \in {0, 255} :
                    /\ heap' = [heap EXCEPT ![r] =
                                  Append(@, Uninitialized(heap[r][sz[r]][1], fill))]
                    /\ t' = [t EXCEPT ![r] = Len(heap[r]) + 1]
                    /\ Enqueue(r, "broadcast", name \o ".t", Len(heap[r]) + 1)
            /\ pc' = [pc EXCEPT ![r] = "bo_t"]
            /\ err' = err
    /\ UNCHANGED << obj, objname, result, sz, sizes, gathered, size, root_rank, params,
                    plist, caller, waited, optVars >>

\* Lines 222-226 with the rank test dropped: every rank returns its own obj.
ReturnedOwn(r, own, bytes) == own

\* Lines 222-226: a non-root rank unpickles t; the root returns its own obj.
Returned(r, own, bytes) == IF r # root_rank THEN Loads(bytes) ELSE own

\* Whether the references of a pickle can be imported on the rank loading it.
Importable(bytes) == IF HasReference(bytes) THEN BOOLEAN ELSE {TRUE}

\* Lines 220-226: the data broadcast returned; a non-root rank's call raises
\* at line 224 when the pickle cannot be loaded there.
BoData(r) ==
    /\ pc[r] = "bo_t"
    /\ Current(r).status # "pending"
    /\ IF Current(r).status = "error"
       THEN /\ Raise(r)
            /\ result' = result
       ELSE \E importable \in Importable(heap[r][t[r]]) :
            IF r # root_rank /\ ~importable
            THEN /\ RaiseCodec(r, "UnpicklingError")
                 /\ result' = result
            ELSE /\ result' = [result EXCEPT ![r] = Returned(r, obj[r], heap[r][t[r]])]
                 /\ pc' = [pc EXCEPT ![r] = "done"]
                 /\ err' = err
    /\ UNCHANGED << obj, objname, t, sz, sizes, gathered, size, root_rank, heap, params,
                    plist, caller, handles, waited, calls, optVars >>

\* Largest world size of the object exchanges.
MaxRanks == 3

\* The name argument: left out, or one string every rank passes.
NameArgs == {"None", "state"}

InitObject ==
    \E n \in 1..MaxRanks, name \in NameArgs :
      \E root \in 0..(n - 1), objs \in [0..(n - 1) -> Objects] :
        /\ size = n
        /\ root_rank = root
        /\ pc = [r \in 0..(n - 1) |-> "bo_entry"]
        /\ err = [r \in 0..(n - 1) |-> ""]
        /\ opt = [r \in 0..(n - 1) |-> NoOptimizer]
        /\ heap = [r \in 0..(n - 1) |-> << >>]
        /\ orig = [r \in 0..(n - 1) |-> << >>]
        /\ atcall = [r \in 0..(n - 1) |-> << >>]
        /\ params = [r \in 0..(n - 1) |-> << >>]
        /\ callbacks = [r \in 0..(n - 1) |-> << >>]
        /\ plist = [r \in 0..(n - 1) |-> << >>]
        /\ caller = [r \in 0..(n - 1) |-> "user"]
        /\ handles = [r \in 0..(n - 1) |-> << >>]
        /\ waited = [r \in 0..(n - 1) |-> 0]
        /\ calls = [r \in 0..(n - 1) |-> << >>]
        /\ steps = [r \in 0..(n - 1) |-> << >>]
        /\ cbcalls = [r \in 0..(n - 1) |-> << >>]
        /\ obj = objs
        /\ objname = [r \in 0..(n - 1) |-> name]
        /\ result = [r \in 0..(n - 1) |-> PyNone]
        /\ t = [r \in 0..(n - 1) |-> 0]
        /\ sz = [r \in 0..(n - 1) |-> 0]
        /\ sizes = [r \in 0..(n - 1) |-> 0]
        /\ gathered = [r \in 0..(n - 1) |-> 0]

NextObject ==
    \/ \E r \in Ranks : BoStart(r)
    \/ \E r \in Ranks : BoSize(r)
    \/ \E r \in Ranks : BoData(r)
    \/ Transfer
    \/ TransferFail

SpecObject == InitObject /\ [][NextObject]_vars

\* Every rank resolved the same channel name.
SameName == \A r \in Ranks : ChannelName(objname[r], obj[r]) =
                             ChannelName(objname[0], obj[0])

\* C2: when all ranks call broadcast_object with the same name, the value
\* returned on every rank equals the root's original object, whatever the
\* non-root ranks passed in.
C2_ObjectRoundTrip ==
    SameName => \A r \in Ranks : pc[r] = "done" => result[r] = obj[root_rank]

\* C2 witness: three ranks, root 1, all returned; a non-root rank passed an
\* object whose pickle has another length than the root's and got the root's.
C2_Witness ==
    /\ size = 3
    /\ root_rank = 1
    /\ \A r \in Ranks : pc[r] = "done"
    /\ obj[1] = PyTuple(<< PyInt(7), PyNone >>)
    /\ obj[0] = PyInt(300)
    /\ result[0] = obj[1]
    /\ result[2] = obj[1]

\* The two blocking broadcasts of broadcast_object on rank r.
ObjectCalls(r) ==
    << [op |-> "broadcast", name |-> ChannelName(objname[r], obj[r]) \o ".sz"],
       [op |-> "broadcast", name |-> ChannelName(objname[r], obj[r]) \o ".t"] >>

\* C14: every rank issues exactly two blocking broadcasts, name.sz before
\* name.t; a non-root rank has no payload buffer until the length broadcast
\* has completed, and when the payload broadcast is issued every rank's
\* buffer has the length of the root's pickle, which is the length received.
C14_LengthThenPayload ==
    \A r \in Ranks :
        /\ Len(calls[r]) <= 2
        /\ calls[r] = SubSeq(ObjectCalls(r), 1, Len(calls[r]))
        /\ pc[r] = "done" => calls[r] = ObjectCalls(r)
        /\ (r # root_rank /\ Len(calls[r]) < 2) => t[r] = 0
        /\ Len(calls[r]) = 2 =>
              /\ handles[r][1].status = "ok"
              /\ heap[r][sz[r]] = << Len(Dumps(obj[root_rank])) >>
              /\ Len(heap[r][t[r]]) = Len(Dumps(obj[root_rank]))

\* C14 witness: a non-root rank whose own object pickles to 4 bytes waits in
\* the payload broadcast with a buffer of the root's 7 bytes.
C14_Witness ==
    \E r \in Ranks \ {root_rank} :
        /\ pc[r] = "bo_t"
        /\ Current(r).status = "pending"
        /\ Len(Dumps(obj[r])) = 4
        /\ Len(heap[r][t[r]]) = 7

\* C19 (as stated): in a call made by all ranks without an explicit name,
\* every rank uses the same channel name for the length exchange and the
\* same for the payload exchange, whatever object each rank passes in; the
\* two names are one name with the suffixes .sz and .t.
C19_SameChannelNames ==
    \A r \in Ranks : \A q \in Ranks :
        objname[r] = "None" =>
            /\ \A j \in 1..Len(calls[r]) :
                  j <= Len(calls[q]) => calls[r][j].name = calls[q][j].name
            /\ Len(calls[r]) >= 1 =>
                  calls[r][1].name = ChannelName(objname[r], obj[r]) \o ".sz"
            /\ Len(calls[r]) >= 2 =>
                  calls[r][2].name = ChannelName(objname[r], obj[r]) \o ".t"

\* A rank that can take a step of its call takes it, and an operation every
\* rank has issued runs; a transport error may or may not happen.
SpecObjectFair ==
    /\ SpecObject
    /\ WF_vars(\E r \in Ranks : BoStart(r) \/ BoSize(r) \/ BoData(r))
    /\ WF_vars(Transfer)

\* Every rank's call has returned or raised.
Terminated == \A r \in Ranks : pc[r] \in {"done", "raised"}

\* C20 (as stated): when all ranks call broadcast_object with the same
\* root_rank and the same name, every rank's call eventually returns or
\* raises, whatever the codec does on the root or on another rank; no rank
\* stays blocked in the length or payload broadcast.
C20_EveryCallTerminates == SameName ~> Terminated

\* ------------------------------------------------------------------------
\* allgather_object (lines 229-262)
\* ------------------------------------------------------------------------

\* sum(sizes[:i + 1]): the prefix sum taken one element too far.
RECURSIVE SumThrough(_, _)
SumThrough(xs, i) == IF i = 0 THEN xs[1] ELSE SumThrough(xs, i - 1) + xs[i + 1]

\* sum(sizes[:i])
RECURSIVE SumFirst(_, _)
SumFirst(xs, i) == IF i = 0 THEN 0 ELSE SumFirst(xs, i - 1) + xs[i]

\* gathered[start:end], the slice clipped to the array as numpy clips it.
Slice(bytes, start, end) ==
    LET hi == IF end > Len(bytes) THEN Len(bytes) ELSE end
    IN  IF start >= hi THEN << >> ELSE SubSeq(bytes, start + 1, hi)

\* select as if every rank's pickle had the length of rank i's.
selectEqual(xs, bytes, i) == Slice(bytes, i * xs[i + 1], (i + 1) * xs[i + 1])

\* Lines 257-260: gathered[start:end] with start = sum(sizes[:i]) and
\* end = start + sizes[i]; i counts from 0.
start(xs, i) == SumFirst(xs, i)

end(xs, i) == start(xs, i) + xs[i + 1]

select(xs, bytes, i) == Slice(bytes, start(xs, i), end(xs, i))

\* Lines 244-246: load(byte_array).
load(byte_array) == Loads(byte_array)

\* Lines 241-254: every rank pickles obj into t, puts its length in sz and
\* gathers the lengths under name + '.sz'.
GaStart(r) ==
    /\ pc[r] = "ga_entry"
    /\ IF ~Picklable(obj[r])
       THEN /\ RaiseCodec(r, "PicklingError")
            /\ UNCHANGED << heap, t, sz, handles, calls >>
       ELSE /\ LET bytes == Dumps(obj[r]) IN
                  /\ heap' = [heap EXCEPT ![r] = @ \o << bytes, << Len(bytes) >> >>]
                  /\ t' = [t EXCEPT ![r] = Len(heap[r]) + 1]
                  /\ sz' = [sz EXCEPT ![r] = Len(heap[r]) + 2]
                  /\ Enqueue(r, "allgather", ChannelName(objname[r], obj[r]) \o ".sz",
                             Len(heap[r]) + 2)
            /\ pc' = [pc EXCEPT ![r] = "ga_sz"]
            /\ err' = err
    /\ UNCHANGED << obj, objname, result, sizes, gathered, size, root_rank, params,
                    plist, caller, waited, optVars >>

\* Lines 254-255: the lengths arrived; gather the bytes under name + '.t'.
GaSizes(r) ==
    /\ pc[r] = "ga_sz"
    /\ Current(r).status # "pending"
    /\ IF Current(r).status = "error"
       THEN /\ Raise(r)
            /\ UNCHANGED << sizes, handles, calls >>
       ELSE /\ sizes' = [sizes EXCEPT ![r] = Current(r).out]
            /\ Enqueue(r, "allgather", ChannelName(objname[r], obj[r]) \o ".t", t[r])
            /\ pc' = [pc EXCEPT ![r] = "ga_t"]
            /\ err' = err
    /\ UNCHANGED << obj, objname, result, t, sz, gathered, size, root_rank, heap, params,
                    plist, caller, waited, optVars >>

\* Lines 255-262: the bytes arrived; return [load(select(i)) for i in
\* range(size())].
GaData(r) ==
    /\ pc[r] = "ga_t"
    /\ Current(r).status # "pending"
    /\ IF Current(r).status = "error"
       THEN /\ Raise(r)
            /\ UNCHANGED << gathered, result >>
       ELSE \E importable \in Importable(heap[r][Current(r).out]) :
            /\ gathered' = [gathered EXCEPT ![r] = Current(r).out]
            /\ IF importable
               THEN /\ result' = [result EXCEPT ![r] =
                          [i \in 1..size |->
                              load(select(heap[r][sizes[r]], heap[r][Current(r).out],
                                          i - 1))]]
                    /\ pc' = [pc EXCEPT ![r] = "done"]
                    /\ err' = err
               ELSE /\ RaiseCodec(r, "UnpicklingError")
                    /\ result' = result
    /\ UNCHANGED << obj, objname, t, sz, sizes, size, root_rank, heap, params, plist,
                    caller, handles, waited, calls, optVars >>

InitGather ==
    \E n \in 1..MaxRanks, name \in NameArgs :
      \E objs \in [0..(n - 1) -> Objects] :
        /\ size = n
        /\ root_rank = 0
        /\ pc = [r \in 0..(n - 1) |-> "ga_entry"]
        /\ err = [r \in 0..(n - 1) |-> ""]
        /\ opt = [r \in 0..(n - 1) |-> NoOptimizer]
        /\ heap = [r \in 0..(n - 1) |-> << >>]
        /\ orig = [r \in 0..(n - 1) |-> << >>]
        /\ atcall = [r \in 0..(n - 1) |-> << >>]
        /\ params = [r \in 0..(n - 1) |-> << >>]
        /\ callbacks = [r \in 0..(n - 1) |-> << >>]
        /\ plist = [r \in 0..(n - 1) |-> << >>]
        /\ caller = [r \in 0..(n - 1) |-> "user"]
        /\ handles = [r \in 0..(n - 1) |-> << >>]
        /\ waited = [r \in 0..(n - 1) |-> 0]
        /\ calls = [r \in 0..(n - 1) |-> << >>]
        /\ steps = [r \in 0..(n - 1) |-> << >>]
        /\ cbcalls = [r \in 0..(n - 1) |-> << >>]
        /\ obj = objs
        /\ objname = [r \in 0..(n - 1) |-> name]
        /\ result = [r \in 0..(n - 1) |-> PyNone]
        /\ t = [r \in 0..(n - 1) |-> 0]
        /\ sz = [r \in 0..(n - 1) |-> 0]
        /\ sizes = [r \in 0..(n - 1) |-> 0]
        /\ gathered = [r \in 0..(n - 1) |-> 0]

NextGather ==
    \/ \E r \in Ranks : GaStart(r)
    \/ \E r \in Ranks : GaSizes(r)
    \/ \E r \in Ranks : GaData(r)
    \/ Gather
    \/ TransferFail

SpecGather == InitGather /\ [][NextGather]_vars

\* C3: when every rank calls allgather_object with the same name, every
\* rank that returned holds a sequence of length size() whose element j is
\* rank j's original object, also when the pickles' lengths differ.
C3_AllgatherOrdering ==
    SameName =>
        \A r \in Ranks :
            pc[r] = "done" =>
                /\ Len(result[r]) = size
                /\ \A j \in Ranks : result[r][j + 1] = obj[j]

\* C3 witness: three ranks with pickles of lengths 7, 4 and 6 all returned
\* the three objects in rank order.
C3_Witness ==
    /\ size = 3
    /\ \A r \in Ranks : pc[r] = "done"
    /\ obj[0] = PyTuple(<< PyInt(7), PyNone >>)
    /\ obj[1] = PyNone
    /\ obj[2] = PyInt(300)
    /\ \A r \in Ranks : result[r] = << obj[0], obj[1], obj[2] >>

\* ------------------------------------------------------------------------
\* select over arbitrary size vectors (lines 257-262)
\* ------------------------------------------------------------------------

\* The lengths a rank may contribute, the empty payload included.
Lengths == {0, 3, 7}

\* What rank j contributes to the gathered buffer: xs[j + 1] bytes j + 1.
Payload(xs, j) == [k \in 1..xs[j + 1] |-> j + 1]

\* The gathered buffer: the ranks' payloads in rank order.
RECURSIVE Concatenated(_, _)
Concatenated(xs, n) ==
    IF n = 0 THEN << >> ELSE Concatenated(xs, n - 1) \o Payload(xs, n - 1)

\* Line 262, one element of the comprehension at a time, before load:
\* select(i) for the next i in range(size()).
GaSelect(r) ==
    /\ pc[r] = "ga_select"
    /\ LET i == Len(result[r]) IN
          /\ result' = [result EXCEPT ![r] =
                Append(@, select(heap[r][sizes[r]], heap[r][gathered[r]], i))]
          /\ pc' = [pc EXCEPT ![r] = IF i + 1 = size THEN "done" ELSE @]
    /\ UNCHANGED << obj, objname, t, sz, sizes, gathered, size, root_rank, err, heap,
                    params, plist, caller, handles, waited, calls, optVars >>

\* Every rank holds the gathered size vector and the gathered buffer.
InitSelect ==
    \E n \in 1..MaxRanks :
      \E xs \in [1..n -> Lengths] :
        /\ size = n
        /\ root_rank = 0
        /\ pc = [r \in 0..(n - 1) |-> "ga_select"]
        /\ err = [r \in 0..(n - 1) |-> ""]
        /\ opt = [r \in 0..(n - 1) |-> NoOptimizer]
        /\ heap = [r \in 0..(n - 1) |-> << xs, Concatenated(xs, n) >>]
        /\ orig = [r \in 0..(n - 1) |-> << >>]
        /\ atcall = [r \in 0..(n - 1) |-> << >>]
        /\ params = [r \in 0..(n - 1) |-> << >>]
        /\ callbacks = [r \in 0..(n - 1) |-> << >>]
        /\ plist = [r \in 0..(n - 1) |-> << >>]
        /\ caller = [r \in 0..(n - 1) |-> "user"]
        /\ handles = [r \in 0..(n - 1) |-> << >>]
        /\ waited = [r \in 0..(n - 1) |-> 0]
        /\ calls = [r \in 0..(n - 1) |-> << >>]
        /\ steps = [r \in 0..(n - 1) |-> << >>]
        /\ cbcalls = [r \in 0..(n - 1) |-> << >>]
        /\ obj = [r \in 0..(n - 1) |-> PyNone]
        /\ objname = [r \in 0..(n - 1) |-> "None"]
        /\ result = [r \in 0..(n - 1) |-> << >>]
        /\ t = [r \in 0..(n - 1) |-> 0]
        /\ sz = [r \in 0..(n - 1) |-> 0]
        /\ sizes = [r \in 0..(n - 1) |-> 1]
        /\ gathered = [r \in 0..(n - 1) |-> 2]

NextSelect == \E r \in Ranks : GaSelect(r)

SpecSelect == InitSelect /\ [][NextSelect]_vars

\* The segments a rank selected so far, concatenated.
RECURSIVE Flatten(_)
Flatten(segs) == IF segs = << >> THEN << >> ELSE Head(segs) \o Flatten(Tail(segs))

\* C12: for every size vector of non-negative sizes the segment bounds are
\* start_i = sum(sizes[0..i)) and end_i = start_i + sizes[i]: the first
\* starts at 0, each starts where the previous one ends, the last ends at the
\* end of the buffer; segment i is exactly rank i's payload, and all segments
\* together are the buffer.
C12_SelectPrefixSums ==
    \A r \in Ranks :
        LET xs == heap[r][sizes[r]]
            buf == heap[r][gathered[r]]
        IN  /\ start(xs, 0) = 0
            /\ \A i \in 0..(size - 1) :
                  /\ end(xs, i) - start(xs, i) = xs[i + 1]
                  /\ i + 1 < size => start(xs, i + 1) = end(xs, i)
            /\ end(xs, size - 1) = Len(buf)
            /\ \A i \in 1..Len(result[r]) : result[r][i] = Payload(xs, i - 1)
            /\ pc[r] = "done" => Flatten(result[r]) = buf

\* C12 witness: sizes [3, 0, 7]; a rank selected [0,3), [3,3) and [3,10).
C12_Witness ==
    \E r \in Ranks :
        /\ pc[r] = "done"
        /\ heap[r][sizes[r]] = << 3, 0, 7 >>
        /\ << start(heap[r][sizes[r]], 0), end(heap[r][sizes[r]], 0) >> = << 0, 3 >>
        /\ << start(heap[r][sizes[r]], 1), end(heap[r][sizes[r]], 1) >> = << 3, 3 >>
        /\ << start(heap[r][sizes[r]], 2), end(heap[r][sizes[r]], 2) >> = << 3, 10 >>
        /\ result[r] = << << 1, 1, 1 >>, << >>, << 3, 3, 3, 3, 3, 3, 3 >> >>

====
